---- MODULE Spec2Model ----
(***************************************************************************)
(* Model of xonsh/prompt/gitstatus.py: the informative git status prompt.  *)
(*                                                                         *)
(* Text is a sequence of characters, each character a one-character        *)
(* string.  A character that is not printable ASCII, \t, \n, \f or \r is   *)
(* written by its code point: "U+25CF" is the one character BLACK CIRCLE,  *)
(* "U+000B" the vertical tab.                                              *)
(* One render call (gitstatus_prompt) is one behaviour: the repository,    *)
(* the configuration and what every external invocation answers are fixed  *)
(* in the initial state, the actions are the steps of the call.            *)
(***************************************************************************)
EXTENDS Integers, Sequences, FiniteSets, TLC

VARIABLES
    env,          \* builtins.__xonsh_env__: the XONSH_GITSTATUS_* overrides
    git,          \* what each external invocation does: outcome, stdout, whether it decodes
    stash_log,    \* <gitdir>/logs/refs/stash: whether it opens and decodes, its text
    markers,      \* the marker paths that exist under <gitdir>
    pc,           \* position of the render call
    lines,        \* status.splitlines()
    i,            \* index of the line the for loop is at
    branch, num_ahead, num_behind,
    untracked, changed, conflicts, staged,
    gitdir, stashed, operations,
    branch_part, operations_part, numbers_part, prompt,
    result,       \* what gitstatus_prompt returns or raises
    log           \* the external invocations, reads and checks made so far

world == <<env, git, stash_log, markers>>
counts == <<untracked, changed, conflicts, staged>>
header == <<branch, num_ahead, num_behind>>
tail == <<gitdir, stashed, operations>>
parts == <<branch_part, operations_part, numbers_part, prompt>>
vars == <<env, git, stash_log, markers, pc, lines, i, branch, num_ahead,
          num_behind, untracked, changed, conflicts, staged, gitdir, stashed,
          operations, branch_part, operations_part, numbers_part, prompt,
          result, log>>

----------------------------------------------------------------------------
(* Python str operations, on sequences of characters.                      *)

\* the characters str.isspace() holds of: what strip(), split() and int() skip
Whitespace ==
    {"\t", "\n", "U+000B", "\f", "\r", "U+001C", "U+001D", "U+001E", "U+001F",
     " ", "U+0085", "U+00A0", "U+1680", "U+2000", "U+2001", "U+2002",
     "U+2003", "U+2004", "U+2005", "U+2006", "U+2007", "U+2008", "U+2009",
     "U+200A", "U+2028", "U+2029", "U+202F", "U+205F", "U+3000"}

\* the characters other than \r at which str.splitlines() ends a line
LineBreaks ==
    {"\n", "U+000B", "\f", "U+001C", "U+001D", "U+001E", "U+0085", "U+2028",
     "U+2029"}

Digits == <<"0", "1", "2", "3", "4", "5", "6", "7", "8", "9">>

\* the decimal digits other than ASCII 0-9 that int() accepts, by value
UnicodeDigit(v) ==
    CASE v = 0 -> {"U+0660", "U+06F0", "U+07C0", "U+0966", "U+09E6", "U+0A66",
                "U+0AE6", "U+0B66", "U+0BE6", "U+0C66", "U+0CE6", "U+0D66",
                "U+0DE6", "U+0E50", "U+0ED0", "U+0F20", "U+1040", "U+1090",
                "U+17E0", "U+1810", "U+1946", "U+19D0", "U+1A80", "U+1A90",
                "U+1B50", "U+1BB0", "U+1C40", "U+1C50", "U+A620", "U+A8D0",
                "U+A900", "U+A9D0", "U+A9F0", "U+AA50", "U+ABF0", "U+FF10",
                "U+104A0", "U+10D30", "U+11066", "U+110F0", "U+11136",
                "U+111D0", "U+112F0", "U+11450", "U+114D0", "U+11650",
                "U+116C0", "U+11730", "U+118E0", "U+11950", "U+11C50",
                "U+11D50", "U+11DA0", "U+16A60", "U+16AC0", "U+16B50",
                "U+1D7CE", "U+1D7D8", "U+1D7E2", "U+1D7EC", "U+1D7F6",
                "U+1E140", "U+1E2F0", "U+1E950", "U+1FBF0"}
      [] v = 1 -> {"U+0661", "U+06F1", "U+07C1", "U+0967", "U+09E7", "U+0A67",
                "U+0AE7", "U+0B67", "U+0BE7", "U+0C67", "U+0CE7", "U+0D67",
                "U+0DE7", "U+0E51", "U+0ED1", "U+0F21", "U+1041", "U+1091",
                "U+17E1", "U+1811", "U+1947", "U+19D1", "U+1A81", "U+1A91",
                "U+1B51", "U+1BB1", "U+1C41", "U+1C51", "U+A621", "U+A8D1",
                "U+A901", "U+A9D1", "U+A9F1", "U+AA51", "U+ABF1", "U+FF11",
                "U+104A1", "U+10D31", "U+11067", "U+110F1", "U+11137",
                "U+111D1", "U+112F1", "U+11451", "U+114D1", "U+11651",
                "U+116C1", "U+11731", "U+118E1", "U+11951", "U+11C51",
                "U+11D51", "U+11DA1", "U+16A61", "U+16AC1", "U+16B51",
                "U+1D7CF", "U+1D7D9", "U+1D7E3", "U+1D7ED", "U+1D7F7",
                "U+1E141", "U+1E2F1", "U+1E951", "U+1FBF1"}
      [] v = 2 -> {"U+0662", "U+06F2", "U+07C2", "U+0968", "U+09E8", "U+0A68",
                "U+0AE8", "U+0B68", "U+0BE8", "U+0C68", "U+0CE8", "U+0D68",
                "U+0DE8", "U+0E52", "U+0ED2", "U+0F22", "U+1042", "U+1092",
                "U+17E2", "U+1812", "U+1948", "U+19D2", "U+1A82", "U+1A92",
                "U+1B52", "U+1BB2", "U+1C42", "U+1C52", "U+A622", "U+A8D2",
                "U+A902", "U+A9D2", "U+A9F2", "U+AA52", "U+ABF2", "U+FF12",
                "U+104A2", "U+10D32", "U+11068", "U+110F2", "U+11138",
                "U+111D2", "U+112F2", "U+11452", "U+114D2", "U+11652",
                "U+116C2", "U+11732", "U+118E2", "U+11952", "U+11C52",
                "U+11D52", "U+11DA2", "U+16A62", "U+16AC2", "U+16B52",
                "U+1D7D0", "U+1D7DA", "U+1D7E4", "U+1D7EE", "U+1D7F8",
                "U+1E142", "U+1E2F2", "U+1E952", "U+1FBF2"}
      [] v = 3 -> {"U+0663", "U+06F3", "U+07C3", "U+0969", "U+09E9", "U+0A69",
                "U+0AE9", "U+0B69", "U+0BE9", "U+0C69", "U+0CE9", "U+0D69",
                "U+0DE9", "U+0E53", "U+0ED3", "U+0F23", "U+1043", "U+1093",
                "U+17E3", "U+1813", "U+1949", "U+19D3", "U+1A83", "U+1A93",
                "U+1B53", "U+1BB3", "U+1C43", "U+1C53", "U+A623", "U+A8D3",
                "U+A903", "U+A9D3", "U+A9F3", "U+AA53", "U+ABF3", "U+FF13",
                "U+104A3", "U+10D33", "U+11069", "U+110F3", "U+11139",
                "U+111D3", "U+112F3", "U+11453", "U+114D3", "U+11653",
                "U+116C3", "U+11733", "U+118E3", "U+11953", "U+11C53",
                "U+11D53", "U+11DA3", "U+16A63", "U+16AC3", "U+16B53",
                "U+1D7D1", "U+1D7DB", "U+1D7E5", "U+1D7EF", "U+1D7F9",
                "U+1E143", "U+1E2F3", "U+1E953", "U+1FBF3"}
      [] v = 4 -> {"U+0664", "U+06F4", "U+07C4", "U+096A", "U+09EA", "U+0A6A",
                "U+0AEA", "U+0B6A", "U+0BEA", "U+0C6A", "U+0CEA", "U+0D6A",
                "U+0DEA", "U+0E54", "U+0ED4", "U+0F24", "U+1044", "U+1094",
                "U+17E4", "U+1814", "U+194A", "U+19D4", "U+1A84", "U+1A94",
                "U+1B54", "U+1BB4", "U+1C44", "U+1C54", "U+A624", "U+A8D4",
                "U+A904", "U+A9D4", "U+A9F4", "U+AA54", "U+ABF4", "U+FF14",
                "U+104A4", "U+10D34", "U+1106A", "U+110F4", "U+1113A",
                "U+111D4", "U+112F4", "U+11454", "U+114D4", "U+11654",
                "U+116C4", "U+11734", "U+118E4", "U+11954", "U+11C54",
                "U+11D54", "U+11DA4", "U+16A64", "U+16AC4", "U+16B54",
                "U+1D7D2", "U+1D7DC", "U+1D7E6", "U+1D7F0", "U+1D7FA",
                "U+1E144", "U+1E2F4", "U+1E954", "U+1FBF4"}
      [] v = 5 -> {"U+0665", "U+06F5", "U+07C5", "U+096B", "U+09EB", "U+0A6B",
                "U+0AEB", "U+0B6B", "U+0BEB", "U+0C6B", "U+0CEB", "U+0D6B",
                "U+0DEB", "U+0E55", "U+0ED5", "U+0F25", "U+1045", "U+1095",
                "U+17E5", "U+1815", "U+194B", "U+19D5", "U+1A85", "U+1A95",
                "U+1B55", "U+1BB5", "U+1C45", "U+1C55", "U+A625", "U+A8D5",
                "U+A905", "U+A9D5", "U+A9F5", "U+AA55", "U+ABF5", "U+FF15",
                "U+104A5", "U+10D35", "U+1106B", "U+110F5", "U+1113B",
                "U+111D5", "U+112F5", "U+11455", "U+114D5", "U+11655",
                "U+116C5", "U+11735", "U+118E5", "U+11955", "U+11C55",
                "U+11D55", "U+11DA5", "U+16A65", "U+16AC5", "U+16B55",
                "U+1D7D3", "U+1D7DD", "U+1D7E7", "U+1D7F1", "U+1D7FB",
                "U+1E145", "U+1E2F5", "U+1E955", "U+1FBF5"}
      [] v = 6 -> {"U+0666", "U+06F6", "U+07C6", "U+096C", "U+09EC", "U+0A6C",
                "U+0AEC", "U+0B6C", "U+0BEC", "U+0C6C", "U+0CEC", "U+0D6C",
                "U+0DEC", "U+0E56", "U+0ED6", "U+0F26", "U+1046", "U+1096",
                "U+17E6", "U+1816", "U+194C", "U+19D6", "U+1A86", "U+1A96",
                "U+1B56", "U+1BB6", "U+1C46", "U+1C56", "U+A626", "U+A8D6",
                "U+A906", "U+A9D6", "U+A9F6", "U+AA56", "U+ABF6", "U+FF16",
                "U+104A6", "U+10D36", "U+1106C", "U+110F6", "U+1113C",
                "U+111D6", "U+112F6", "U+11456", "U+114D6", "U+11656",
                "U+116C6", "U+11736", "U+118E6", "U+11956", "U+11C56",
                "U+11D56", "U+11DA6", "U+16A66", "U+16AC6", "U+16B56",
                "U+1D7D4", "U+1D7DE", "U+1D7E8", "U+1D7F2", "U+1D7FC",
                "U+1E146", "U+1E2F6", "U+1E956", "U+1FBF6"}
      [] v = 7 -> {"U+0667", "U+06F7", "U+07C7", "U+096D", "U+09ED", "U+0A6D",
                "U+0AED", "U+0B6D", "U+0BED", "U+0C6D", "U+0CED", "U+0D6D",
                "U+0DED", "U+0E57", "U+0ED7", "U+0F27", "U+1047", "U+1097",
                "U+17E7", "U+1817", "U+194D", "U+19D7", "U+1A87", "U+1A97",
                "U+1B57", "U+1BB7", "U+1C47", "U+1C57", "U+A627", "U+A8D7",
                "U+A907", "U+A9D7", "U+A9F7", "U+AA57", "U+ABF7", "U+FF17",
                "U+104A7", "U+10D37", "U+1106D", "U+110F7", "U+1113D",
                "U+111D7", "U+112F7", "U+11457", "U+114D7", "U+11657",
                "U+116C7", "U+11737", "U+118E7", "U+11957", "U+11C57",
                "U+11D57", "U+11DA7", "U+16A67", "U+16AC7", "U+16B57",
                "U+1D7D5", "U+1D7DF", "U+1D7E9", "U+1D7F3", "U+1D7FD",
                "U+1E147", "U+1E2F7", "U+1E957", "U+1FBF7"}
      [] v = 8 -> {"U+0668", "U+06F8", "U+07C8", "U+096E", "U+09EE", "U+0A6E",
                "U+0AEE", "U+0B6E", "U+0BEE", "U+0C6E", "U+0CEE", "U+0D6E",
                "U+0DEE", "U+0E58", "U+0ED8", "U+0F28", "U+1048", "U+1098",
                "U+17E8", "U+1818", "U+194E", "U+19D8", "U+1A88", "U+1A98",
                "U+1B58", "U+1BB8", "U+1C48", "U+1C58", "U+A628", "U+A8D8",
                "U+A908", "U+A9D8", "U+A9F8", "U+AA58", "U+ABF8", "U+FF18",
                "U+104A8", "U+10D38", "U+1106E", "U+110F8", "U+1113E",
                "U+111D8", "U+112F8", "U+11458", "U+114D8", "U+11658",
                "U+116C8", "U+11738", "U+118E8", "U+11958", "U+11C58",
                "U+11D58", "U+11DA8", "U+16A68", "U+16AC8", "U+16B58",
                "U+1D7D6", "U+1D7E0", "U+1D7EA", "U+1D7F4", "U+1D7FE",
                "U+1E148", "U+1E2F8", "U+1E958", "U+1FBF8"}
      [] v = 9 -> {"U+0669", "U+06F9", "U+07C9", "U+096F", "U+09EF", "U+0A6F",
                "U+0AEF", "U+0B6F", "U+0BEF", "U+0C6F", "U+0CEF", "U+0D6F",
                "U+0DEF", "U+0E59", "U+0ED9", "U+0F29", "U+1049", "U+1099",
                "U+17E9", "U+1819", "U+194F", "U+19D9", "U+1A89", "U+1A99",
                "U+1B59", "U+1BB9", "U+1C49", "U+1C59", "U+A629", "U+A8D9",
                "U+A909", "U+A9D9", "U+A9F9", "U+AA59", "U+ABF9", "U+FF19",
                "U+104A9", "U+10D39", "U+1106F", "U+110F9", "U+1113F",
                "U+111D9", "U+112F9", "U+11459", "U+114D9", "U+11659",
                "U+116C9", "U+11739", "U+118E9", "U+11959", "U+11C59",
                "U+11D59", "U+11DA9", "U+16A69", "U+16AC9", "U+16B59",
                "U+1D7D7", "U+1D7E1", "U+1D7EB", "U+1D7F5", "U+1D7FF",
                "U+1E149", "U+1E2F9", "U+1E959", "U+1FBF9"}

Min(S) == CHOOSE x \in S : \A y \in S : x <= y

\* s.startswith(p)
StartsWith(s, p) == Len(s) >= Len(p) /\ SubSeq(s, 1, Len(p)) = p

\* s.find(sub) + 1: the first position of sub in s, 0 when there is none
Find(s, sub) ==
    LET at == {k \in 1..(Len(s) - Len(sub) + 1) :
                   SubSeq(s, k, k + Len(sub) - 1) = sub}
    IN IF at = {} THEN 0 ELSE Min(at)

\* sub in s
Contains(s, sub) == Find(s, sub) # 0

\* s.strip(chars)
RECURSIVE LStripChars(_, _)
LStripChars(s, chars) ==
    IF s # <<>> /\ Head(s) \in chars THEN LStripChars(Tail(s), chars) ELSE s

RECURSIVE RStripChars(_, _)
RStripChars(s, chars) ==
    IF s # <<>> /\ s[Len(s)] \in chars
    THEN RStripChars(SubSeq(s, 1, Len(s) - 1), chars)
    ELSE s

StripChars(s, chars) == RStripChars(LStripChars(s, chars), chars)

\* s.strip()
Strip(s) == StripChars(s, Whitespace)

\* s.split(sep)
RECURSIVE Split(_, _)
Split(s, sep) ==
    LET k == Find(s, sep)
    IN IF k = 0 THEN <<s>>
       ELSE <<SubSeq(s, 1, k - 1)>> \o Split(SubSeq(s, k + Len(sep), Len(s)), sep)

\* s.split(sep, 1)
Split1(s, sep) ==
    LET k == Find(s, sep)
    IN IF k = 0 THEN <<s>>
       ELSE <<SubSeq(s, 1, k - 1), SubSeq(s, k + Len(sep), Len(s))>>

\* s.split(): the maximal runs of non-whitespace characters
RECURSIVE SplitWs(_)
SplitWs(s) ==
    LET t == LStripChars(s, Whitespace)
        ws == {k \in 1..Len(t) : t[k] \in Whitespace}
    IN IF t = <<>> THEN <<>>
       ELSE IF ws = {} THEN <<t>>
       ELSE <<SubSeq(t, 1, Min(ws) - 1)>> \o SplitWs(SubSeq(t, Min(ws), Len(t)))

\* s.splitlines(): a line ends at \r\n, \r or a character of LineBreaks; no
\* empty last line
RECURSIVE SplitLines(_)
SplitLines(s) ==
    LET brk == {k \in 1..Len(s) : s[k] \in LineBreaks \cup {"\r"}}
        k == Min(brk)
        next == IF s[k] = "\r" /\ k < Len(s) /\ s[k + 1] = "\n" THEN k + 2 ELSE k + 1
    IN IF s = <<>> THEN <<>>
       ELSE IF brk = {} THEN <<s>>
       ELSE <<SubSeq(s, 1, k - 1)>> \o SplitLines(SubSeq(s, next, Len(s)))

\* sep.join(list)
RECURSIVE Join(_, _)
Join(sep, list) ==
    IF list = <<>> THEN <<>>
    ELSE IF Len(list) = 1 THEN list[1]
    ELSE list[1] \o sep \o Join(sep, Tail(list))

\* str(n) of an integer
RECURSIVE NatToStr(_)
NatToStr(n) ==
    IF n < 10 THEN <<Digits[n + 1]>>
    ELSE NatToStr(n \div 10) \o <<Digits[(n % 10) + 1]>>

IntToStr(n) == IF n < 0 THEN <<"-">> \o NatToStr(-n) ELSE NatToStr(n)

IsDigit(c) == \E v \in 0..9 : Digits[v + 1] = c \/ c \in UnicodeDigit(v)

DigitValue(c) == CHOOSE v \in 0..9 : Digits[v + 1] = c \/ c \in UnicodeDigit(v)

RECURSIVE SignificantValue(_)
SignificantValue(s) ==
    IF s = <<>> THEN 0
    ELSE IF s[Len(s)] = "_" THEN SignificantValue(SubSeq(s, 1, Len(s) - 1))
    ELSE 10 * SignificantValue(SubSeq(s, 1, Len(s) - 1)) + DigitValue(s[Len(s)])

\* the value of digits and underscores: that of what follows the leading zeros
DigitsValue(s) ==
    LET significant == {k \in 1..Len(s) : s[k] # "_" /\ DigitValue(s[k]) # 0}
    IN IF significant = {} THEN 0
       ELSE SignificantValue(SubSeq(s, Min(significant), Len(s)))

\* the whitespace int() skips around the number: that of str.isspace() but
\* for the four ASCII separators U+001C to U+001F
IntWhitespace == Whitespace \ {"U+001C", "U+001D", "U+001E", "U+001F"}

\* the most digits int() converts (the interpreter's int_max_str_digits)
MaxStrDigits == 4300

\* int(s): surrounding whitespace, an optional sign, decimal digits that single
\* underscores may separate, at most MaxStrDigits of them; anything else is a
\* ValueError (ok = FALSE)
ParseInt(s) ==
    LET t == StripChars(s, IntWhitespace)
        signed == t # <<>> /\ Head(t) \in {"+", "-"}
        body == IF signed THEN Tail(t) ELSE t
        wellFormed ==
            /\ body # <<>>
            /\ Cardinality({k \in 1..Len(body) : body[k] # "_"}) <= MaxStrDigits
            /\ \A k \in 1..Len(body) : IsDigit(body[k]) \/ body[k] = "_"
            /\ IsDigit(body[1]) /\ IsDigit(body[Len(body)])
            /\ \A k \in 1..(Len(body) - 1) : ~(body[k] = "_" /\ body[k + 1] = "_")
    IN IF ~wellFormed THEN [ok |-> FALSE, val |-> 0]
       ELSE [ok |-> TRUE,
             val |-> IF signed /\ Head(t) = "-" THEN -DigitsValue(body)
                     ELSE DigitsValue(body)]

----------------------------------------------------------------------------
(* The string literals of the source.                                      *)

HeaderMark == <<"#", "#">>
InitialCommitOn ==
    <<"I", "n", "i", "t", "i", "a", "l", " ", "c", "o", "m", "m", "i", "t", " ", "o", "n">>
NoBranch == <<"n", "o", " ", "b", "r", "a", "n", "c", "h">>
Dots == <<".", ".", ".">>
AheadWord == <<"a", "h", "e", "a", "d">>
BehindWord == <<"b", "e", "h", "i", "n", "d">>
AheadPrefix == <<"a", "h", "e", "a", "d", " ">>
BehindPrefix == <<"b", "e", "h", "i", "n", "d", " ">>
CommaSpace == <<",", " ">>
UntrackedMark == <<"?", "?">>
NoColor == <<"{", "N", "O", "_", "C", "O", "L", "O", "R", "}">>
Cyan == <<"{", "C", "Y", "A", "N", "}">>
Red == <<"{", "R", "E", "D", "}">>
Blue == <<"{", "B", "L", "U", "E", "}">>
BoldGreen == <<"{", "B", "O", "L", "D", "_", "G", "R", "E", "E", "N", "}">>

Keys == {"HASH", "BRANCH", "OPERATION", "STAGED", "CONFLICTS", "CHANGED",
         "UNTRACKED", "STASHED", "CLEAN", "AHEAD", "BEHIND", "PARTS_SEPARATOR",
         "AHEAD_BEHIND_SEPARATOR", "OPERATIONS_SEPARATOR", "NUMBERS_SEPARATOR"}

\* _DEFS
_DEFS ==
    [k \in Keys |->
        (CASE k = "HASH" -> <<":">>
          [] k = "BRANCH" -> Cyan
          [] k = "OPERATION" -> Cyan
          [] k = "STAGED" -> Red \o <<"U+25CF">>
          [] k = "CONFLICTS" -> Red \o <<"U+00D7">>
          [] k = "CHANGED" -> Blue \o <<"+">>
          [] k = "UNTRACKED" -> <<"U+2026">>
          [] k = "STASHED" -> <<"U+2691">>
          [] k = "CLEAN" -> BoldGreen \o <<"U+2713">>
          [] k = "AHEAD" -> <<"U+2191", "U+00B7">>
          [] k = "BEHIND" -> <<"U+2193", "U+00B7">>
          [] k = "PARTS_SEPARATOR" -> <<"|">>
          [] k = "AHEAD_BEHIND_SEPARATOR" -> <<>>
          [] k = "OPERATIONS_SEPARATOR" -> <<"|">>
          [] k = "NUMBERS_SEPARATOR" -> << >>)]

\* _get_def with the bug "def_ if def_ else _DEFS[key]"
_get_def_truthy(e, key) ==
    IF key \in DOMAIN e /\ e[key] # <<>> THEN e[key] ELSE _DEFS[key]

\* _get_def(key): env.get() is None exactly when the key is not set
_get_def(e, key) == IF key \in DOMAIN e THEN e[key] ELSE _DEFS[key]

----------------------------------------------------------------------------
(* The external tool and the exceptions of subprocess.check_output.        *)

Queries == {"status", "describe", "hash", "gitdir"}

\* how an invocation can end: exit status 0, a non-zero exit status, the
\* timeout expiring, the process not being launched (no git executable);
\* besides, the stdout of a process that ended may not decode as text
Outcomes == {"ok", "nonzero", "timeout", "nolaunch"}

\* universal_newlines=True, and open() in text mode: \r\n and \r are read as \n
RECURSIVE UniversalNewlines(_)
UniversalNewlines(s) ==
    LET cr == {k \in 1..Len(s) : s[k] = "\r"}
        k == Min(cr)
        next == IF k < Len(s) /\ s[k + 1] = "\n" THEN k + 2 ELSE k + 1
    IN IF cr = {} THEN s
       ELSE SubSeq(s, 1, k - 1) \o <<"\n">> \o UniversalNewlines(SubSeq(s, next, Len(s)))

\* the exceptions that derive from subprocess.SubprocessError
SubprocessError == {"CalledProcessError", "TimeoutExpired"}

\* _check_output(['git', ...]): the captured stdout as text, or the exception
\* that subprocess.check_output raises; Popen's failure to launch is an
\* OSError; the stdout of a process that ended is decoded before its exit
\* status is looked at, and UnicodeDecodeError is a ValueError
_check_output(g, q) ==
    CASE g[q].how = "nolaunch" -> [exc |-> "OSError", out |-> <<>>]
      [] g[q].how = "timeout" -> [exc |-> "TimeoutExpired", out |-> <<>>]
      [] g[q].how \in {"ok", "nonzero"} /\ ~g[q].decodes ->
             [exc |-> "UnicodeDecodeError", out |-> <<>>]
      [] g[q].how = "nonzero" /\ g[q].decodes ->
             [exc |-> "CalledProcessError", out |-> <<>>]
      [] g[q].how = "ok" /\ g[q].decodes ->
             [exc |-> "", out |-> UniversalNewlines(g[q].out)]

Running == [kind |-> "running", exc |-> "", val |-> <<>>]
ReturnNone == [kind |-> "None", exc |-> "", val |-> <<>>]
ReturnStr(s) == [kind |-> "str", exc |-> "", val |-> s]
Raise(e) == [kind |-> "raise", exc |-> e, val |-> <<>>]

\* gitstatus_prompt's try/except around gitstatus(): an exception that is a
\* SubprocessError becomes None, any other leaves gitstatus_prompt
Except(e) == IF e \in SubprocessError THEN ReturnNone ELSE Raise(e)

----------------------------------------------------------------------------
(* gitstatus(): the header line.                                           *)

Last(s) == s[Len(s)]

\* the for loop over divergence.split(', '); ok = FALSE is int()'s ValueError
RECURSIVE Divergence(_, _, _)
Divergence(pieces, a, b) ==
    IF pieces = <<>> THEN [ok |-> TRUE, ahead |-> a, behind |-> b]
    ELSE LET div == Head(pieces)
             na == ParseInt(Strip(SubSeq(div, Len(AheadPrefix) + 1, Len(div))))
             nb == ParseInt(Strip(SubSeq(div, Len(BehindPrefix) + 1, Len(div))))
         IN IF Contains(div, AheadWord)
            THEN IF na.ok THEN Divergence(Tail(pieces), na.val, b)
                 ELSE [ok |-> FALSE, ahead |-> a, behind |-> b]
            ELSE IF Contains(div, BehindWord)
            THEN IF nb.ok THEN Divergence(Tail(pieces), a, nb.val)
                 ELSE [ok |-> FALSE, ahead |-> a, behind |-> b]
            ELSE Divergence(Tail(pieces), a, b)

\* the tracking case: branch, rest = line.split('...') and what follows
Tracking(line, br, a, b) ==
    LET two == Split(line, Dots)
        rest == two[2]
        divergence == StripChars(Last(Split1(rest, <<" ">>)), {"[", "]"})
        d == Divergence(Split(divergence, CommaSpace), a, b)
    IN IF Len(two) # 2
       THEN [exc |-> "ValueError", detached |-> FALSE,
             branch |-> br, ahead |-> a, behind |-> b]
       ELSE IF ~Contains(rest, <<" ">>)
       THEN [exc |-> "", detached |-> FALSE,
             branch |-> two[1], ahead |-> a, behind |-> b]
       ELSE [exc |-> IF d.ok THEN "" ELSE "ValueError", detached |-> FALSE,
             branch |-> two[1], ahead |-> d.ahead, behind |-> d.behind]

\* the body of "if line.startswith('##')": the new branch, ahead and behind,
\* whether _get_tag_or_hash() is to be called, the exception raised if any
HeaderLine(raw, br, a, b) ==
    LET line == Strip(SubSeq(raw, Len(HeaderMark) + 1, Len(raw)))
    IN IF Contains(line, InitialCommitOn)
       THEN [exc |-> "", detached |-> FALSE,
             branch |-> Last(SplitWs(line)), ahead |-> a, behind |-> b]
       ELSE IF Contains(line, NoBranch)
       THEN [exc |-> "", detached |-> TRUE, branch |-> br, ahead |-> a, behind |-> b]
       ELSE IF ~Contains(line, Dots)
       THEN [exc |-> "", detached |-> FALSE, branch |-> line, ahead |-> a, behind |-> b]
       ELSE Tracking(line, br, a, b)

(* gitstatus(): an entry line, as the increments of the four counters.     *)
EntryLine(line) ==
    IF StartsWith(line, UntrackedMark)
    THEN [untracked |-> 1, changed |-> 0, conflicts |-> 0, staged |-> 0]
    ELSE [untracked |-> 0,
          changed |-> IF Len(line) > 1 /\ line[2] = "M" THEN 1 ELSE 0,
          conflicts |-> IF Len(line) > 0 /\ line[1] = "U" THEN 1 ELSE 0,
          staged |-> IF Len(line) > 0 /\ line[1] # "U" /\ line[1] # " " THEN 1 ELSE 0]

----------------------------------------------------------------------------
(* _get_stash and _gitoperation.                                           *)

\* sum(1 for _ in f): the lines of a file read in text mode, the last one
\* counted also when no newline ends it
CountLines(text) ==
    LET t == UniversalNewlines(text)
    IN Cardinality({k \in 1..Len(t) : t[k] = "\n"})
           + (IF t # <<>> /\ Last(t) # "\n" THEN 1 ELSE 0)

\* the character open() refuses in a path, with a ValueError
Nul == "U+0000"

\* _get_stash(gitdir), f being the file at gitdir/logs/refs/stash: open()
\* failing with IOError gives 0; a path with a NUL character raises ValueError
\* and a file that does not decode raises UnicodeDecodeError, both of which
\* "except IOError" lets through
_get_stash(dir, f) ==
    IF \E k \in 1..Len(dir) : dir[k] = Nul THEN [exc |-> "ValueError", n |-> 0]
    ELSE IF ~f.opens THEN [exc |-> "", n |-> 0]
    ELSE IF ~f.decodes THEN [exc |-> "UnicodeDecodeError", n |-> 0]
    ELSE [exc |-> "", n |-> CountLines(f.text)]

\* the tuple "files" of _gitoperation
files ==
    << <<"rebase-merge",
          <<"R", "E", "B", "A", "S", "E">>>>,
       <<"rebase-apply",
          <<"A", "M", "/", "R", "E", "B", "A", "S", "E">>>>,
       <<"MERGE_HEAD",
          <<"M", "E", "R", "G", "I", "N", "G">>>>,
       <<"CHERRY_PICK_HEAD",
          <<"C", "H", "E", "R", "R", "Y", "-", "P", "I", "C", "K", "I", "N", "G">>>>,
       <<"REVERT_HEAD",
          <<"R", "E", "V", "E", "R", "T", "I", "N", "G">>>>,
       <<"BISECT_LOG",
          <<"B", "I", "S", "E", "C", "T", "I", "N", "G">>>> >>

RECURSIVE Labels(_, _)
Labels(fs, present) ==
    IF fs = <<>> THEN <<>>
    ELSE (IF Head(fs)[1] \in present THEN <<Head(fs)[2]>> ELSE <<>>)
             \o Labels(Tail(fs), present)

\* _gitoperation with the bug of stopping at the first marker found
_gitoperation_first(present) ==
    LET all == Labels(files, present)
    IN IF all = <<>> THEN <<>> ELSE <<Head(all)>>

\* _gitoperation(gitdir): [f[1] for f in files if os.path.exists(...)]
_gitoperation(present) == Labels(files, present)

\* the os.path.exists calls _gitoperation makes, in order
ExistsChecks == [k \in 1..Len(files) |-> files[k][1]]

----------------------------------------------------------------------------
(* gitstatus_prompt(): the three parts and the prompt.                     *)

\* branch_part
BranchPart(e, br, a, b) ==
    LET p0 == <<_get_def(e, "BRANCH") \o br>>
        p1 == IF a > 0 /\ _get_def(e, "AHEAD") # <<>>
              THEN Append(p0, _get_def(e, "AHEAD") \o IntToStr(a)) ELSE p0
    IN IF b > 0 /\ _get_def(e, "BEHIND") # <<>>
       THEN Append(p1, _get_def(e, "BEHIND") \o IntToStr(b)) ELSE p1

\* operations_part; the empty list when "if operations" is not taken
OperationsPart(e, ops) ==
    IF ops # <<>> THEN <<_get_def(e, "OPERATION")>> \o ops ELSE <<>>

\* one "if count > 0 and _get_def(key)" append of numbers_part
Number(e, part, key, n) ==
    IF n > 0 /\ _get_def(e, key) # <<>>
    THEN Append(part, _get_def(e, key) \o IntToStr(n)) ELSE part

\* numbers_part with the bug of appending CONFLICTS before STAGED
NumbersPartSwapped(e, st, co, ch, un, sh) ==
    LET n1 == Number(e, <<>>, "CONFLICTS", co)
        n2 == Number(e, n1, "STAGED", st)
        n3 == Number(e, n2, "CHANGED", ch)
        n4 == Number(e, n3, "UNTRACKED", un)
        n5 == Number(e, n4, "STASHED", sh)
    IN IF st = 0 /\ co = 0 /\ ch = 0 /\ un = 0 /\ sh = 0 /\ _get_def(e, "CLEAN") # <<>>
       THEN Append(n5, _get_def(e, "CLEAN")) ELSE n5

\* numbers_part
NumbersPart(e, st, co, ch, un, sh) ==
    LET n1 == Number(e, <<>>, "STAGED", st)
        n2 == Number(e, n1, "CONFLICTS", co)
        n3 == Number(e, n2, "CHANGED", ch)
        n4 == Number(e, n3, "UNTRACKED", un)
        n5 == Number(e, n4, "STASHED", sh)
    IN IF st = 0 /\ co = 0 /\ ch = 0 /\ un = 0 /\ sh = 0 /\ _get_def(e, "CLEAN") # <<>>
       THEN Append(n5, _get_def(e, "CLEAN")) ELSE n5

\* numbers_str with the bug of leaving out the colour reset
NumbersStrPlain(e, np) == Join(_get_def(e, "NUMBERS_SEPARATOR"), np)

\* numbers_str: every entry gets '{NO_COLOR}' before the join
NumbersStr(e, np) ==
    Join(_get_def(e, "NUMBERS_SEPARATOR"), [k \in 1..Len(np) |-> np[k] \o NoColor])

\* the list "prompt" after the three conditional appends
PromptList(e, bp, op, np) ==
    <<Join(_get_def(e, "AHEAD_BEHIND_SEPARATOR"), bp)>>
        \o (IF op # <<>> THEN <<Join(_get_def(e, "OPERATIONS_SEPARATOR"), op)>> ELSE <<>>)
        \o (IF np # <<>> THEN <<NumbersStr(e, np)>> ELSE <<>>)

----------------------------------------------------------------------------
(* The steps of one render call.                                           *)

\* gitstatus(): the status query and the initial values of the locals
Status ==
    /\ pc = "start"
    /\ LET r == _check_output(git, "status")
       IN /\ log' = Append(log, "status")
          /\ IF r.exc # ""
             THEN /\ pc' = "done"
                  /\ result' = Except(r.exc)
                  /\ UNCHANGED <<lines, i>>
             ELSE /\ pc' = "loop"
                  /\ lines' = SplitLines(r.out)
                  /\ i' = 1
                  /\ UNCHANGED result
    /\ UNCHANGED <<world, header, counts, tail, parts>>

\* gitstatus(): one iteration of "for line in status.splitlines()"; at a
\* detached-HEAD header the iteration is left at the call of _get_tag_or_hash
Loop ==
    /\ pc = "loop"
    /\ i <= Len(lines)
    /\ LET line == lines[i]
           h == HeaderLine(line, branch, num_ahead, num_behind)
           c == EntryLine(line)
       IN IF StartsWith(line, HeaderMark)
          THEN /\ branch' = h.branch
               /\ num_ahead' = h.ahead
               /\ num_behind' = h.behind
               /\ UNCHANGED counts
               /\ IF h.exc # ""
                  THEN pc' = "done" /\ result' = Except(h.exc) /\ UNCHANGED i
                  ELSE IF h.detached
                  THEN pc' = "describe" /\ UNCHANGED <<result, i>>
                  ELSE pc' = "loop" /\ i' = i + 1 /\ UNCHANGED result
          ELSE /\ untracked' = untracked + c.untracked
               /\ changed' = changed + c.changed
               /\ conflicts' = conflicts + c.conflicts
               /\ staged' = staged + c.staged
               /\ i' = i + 1
               /\ UNCHANGED <<pc, result, header>>
    /\ UNCHANGED <<world, lines, tail, parts, log>>

\* the tag lookup with the bug of running the hash query whatever the tag is
DescribeThenHash ==
    /\ pc = "describe"
    /\ LET r == _check_output(git, "describe")
       IN /\ log' = Append(log, "describe")
          /\ IF r.exc # ""
             THEN pc' = "done" /\ result' = Except(r.exc) /\ UNCHANGED <<branch, i>>
             ELSE pc' = "hash" /\ UNCHANGED <<branch, i, result>>
    /\ UNCHANGED <<world, lines, num_ahead, num_behind, counts, tail, parts>>

\* _get_tag_or_hash(): the exact-match tag lookup
Describe ==
    /\ pc = "describe"
    /\ LET r == _check_output(git, "describe")
           tag == Strip(r.out)
       IN /\ log' = Append(log, "describe")
          /\ IF r.exc # ""
             THEN pc' = "done" /\ result' = Except(r.exc) /\ UNCHANGED <<branch, i>>
             ELSE IF tag # <<>>
             THEN pc' = "loop" /\ branch' = tag /\ i' = i + 1 /\ UNCHANGED result
             ELSE pc' = "hash" /\ UNCHANGED <<branch, i, result>>
    /\ UNCHANGED <<world, lines, num_ahead, num_behind, counts, tail, parts>>

\* _get_tag_or_hash(): the hash query, after a tag lookup that printed nothing
RevParseShort ==
    /\ pc = "hash"
    /\ LET r == _check_output(git, "hash")
       IN /\ log' = Append(log, "hash")
          /\ IF r.exc # ""
             THEN pc' = "done" /\ result' = Except(r.exc) /\ UNCHANGED <<branch, i>>
             ELSE /\ pc' = "loop"
                  /\ branch' = _get_def(env, "HASH") \o Strip(r.out)
                  /\ i' = i + 1
                  /\ UNCHANGED result
    /\ UNCHANGED <<world, lines, num_ahead, num_behind, counts, tail, parts>>

\* gitstatus(): the metadata-directory query, after the loop
RevParseGitDir ==
    /\ pc = "loop"
    /\ i > Len(lines)
    /\ LET r == _check_output(git, "gitdir")
       IN /\ log' = Append(log, "gitdir")
          /\ IF r.exc # ""
             THEN pc' = "done" /\ result' = Except(r.exc) /\ UNCHANGED gitdir
             ELSE pc' = "stash" /\ gitdir' = Strip(r.out) /\ UNCHANGED result
    /\ UNCHANGED <<world, lines, i, header, counts, stashed, operations, parts>>

\* gitstatus(): stashed = _get_stash(gitdir)
GetStash ==
    /\ pc = "stash"
    /\ LET r == _get_stash(gitdir, stash_log)
       IN /\ log' = IF r.exc = "ValueError" THEN log
                    ELSE Append(log, "open logs/refs/stash")
          /\ IF r.exc # ""
             THEN pc' = "done" /\ result' = Except(r.exc) /\ UNCHANGED stashed
             ELSE pc' = "operation" /\ stashed' = r.n /\ UNCHANGED result
    /\ UNCHANGED <<world, lines, i, header, counts, gitdir, operations, parts>>

\* gitstatus(): operations = _gitoperation(gitdir), and the return
GitOperation ==
    /\ pc = "operation"
    /\ operations' = _gitoperation(markers)
    /\ log' = log \o ExistsChecks
    /\ pc' = "render"
    /\ UNCHANGED <<world, lines, i, header, counts, gitdir, stashed, parts, result>>

\* gitstatus_prompt(): everything after the try/except
Render ==
    /\ pc = "render"
    /\ LET bp == BranchPart(env, branch, num_ahead, num_behind)
           op == OperationsPart(env, operations)
           np == NumbersPart(env, staged, conflicts, changed, untracked, stashed)
           pr == PromptList(env, bp, op, np)
       IN /\ branch_part' = bp
          /\ operations_part' = op
          /\ numbers_part' = np
          /\ prompt' = pr
          /\ result' = ReturnStr(Join(_get_def(env, "PARTS_SEPARATOR"), pr))
    /\ pc' = "done"
    /\ UNCHANGED <<world, lines, i, header, counts, tail, log>>

Next ==
    \/ Status
    \/ Loop
    \/ Describe
    \/ RevParseShort
    \/ RevParseGitDir
    \/ GetStash
    \/ GitOperation
    \/ Render

----------------------------------------------------------------------------
(* The repositories, configurations and tool behaviours a call is run on.  *)

MaxEntryLines == 3
MaxStash == 2
MaxCount == 2

NL == <<"\n">>
SP == <<" ">>

RECURSIVE Repeat(_, _)
Repeat(s, n) == IF n = 0 THEN <<>> ELSE s \o Repeat(s, n - 1)

RECURSIVE Concat(_)
Concat(ss) == IF ss = <<>> THEN <<>> ELSE Head(ss) \o Concat(Tail(ss))

\* the sequences over S of length at most n
RECURSIVE SeqsUpTo(_, _)
SeqsUpTo(S, n) ==
    IF n = 0 THEN {<<>>}
    ELSE LET shorter == SeqsUpTo(S, n - 1)
         IN shorter \cup {Append(q, x) : q \in shorter, x \in S}

\* the text git prints for a header line and entry lines
StatusText(hdr, entries) ==
    hdr \o NL \o Concat([k \in 1..Len(entries) |-> entries[k] \o NL])

Main == <<"m", "a", "i", "n">>
OriginMain == <<"o", "r", "i", "g", "i", "n", "/", "m", "a", "i", "n">>
Locals == {Main, AheadWord}
Upstreams == {OriginMain, <<"o", "/">> \o BehindWord}
Amounts == (1..MaxCount) \cup {12}

AheadClause(a) == AheadPrefix \o IntToStr(a)
BehindClause(b) == BehindPrefix \o IntToStr(b)
Clauses ==
    {AheadClause(a) : a \in Amounts}
        \cup {BehindClause(b) : b \in Amounts}
        \cup {AheadClause(a) \o CommaSpace \o BehindClause(b) : a \in Amounts, b \in Amounts}

TrackingHeader(l, u, clause) ==
    HeaderMark \o SP \o l \o Dots \o u
        \o (IF clause = <<>> THEN <<>> ELSE <<" ", "[">> \o clause \o <<"]">>)

\* "## L...U" with and without a divergence clause
TrackingHeaders ==
    {TrackingHeader(l, u, c) : l \in Locals, u \in Upstreams, c \in Clauses \cup {<<>>}}

ExampleHeader == TrackingHeader(Main, OriginMain, AheadClause(2) \o CommaSpace \o BehindClause(1))
PlainHeader == HeaderMark \o SP \o <<"m", "a", "s", "t", "e", "r">>
DetachedHeader == HeaderMark \o SP \o <<"H", "E", "A", "D", " ", "(", "n", "o", " ", "b", "r", "a", "n", "c", "h", ")">>
InitialHeader == HeaderMark \o SP \o InitialCommitOn \o SP \o <<"m", "a", "s", "t", "e", "r">>

\* header lines git does not print in this shape, or prints for a gone upstream
OddHeaders ==
    {HeaderMark,
     HeaderMark \o <<"U+00A0">> \o Main \o <<"U+000B">>,
     HeaderMark \o SP \o Main \o <<"U+2028", "x">>,
     TrackingHeader(Main, OriginMain, AheadPrefix \o <<"U+0663">>),
     TrackingHeader(Main, OriginMain, BehindPrefix \o <<"U+00A0", "U+FF11", "2">>),
     HeaderMark \o SP \o <<"a">> \o Dots \o <<"b">> \o Dots \o <<"c">>,
     TrackingHeader(Main, OriginMain, AheadWord),
     TrackingHeader(Main, OriginMain, AheadPrefix \o <<"x">>),
     TrackingHeader(Main, OriginMain, BehindPrefix \o <<"1", ".", "5">>),
     TrackingHeader(Main, OriginMain, AheadClause(1) \o CommaSpace \o BehindWord),
     TrackingHeader(Main, OriginMain, <<"g", "o", "n", "e">>),
     TrackingHeader(Main, OriginMain, BehindClause(1) \o CommaSpace \o AheadClause(2))}

\* a count of one digit more than int() converts, and a count of as many
\* digits as it converts, written with leading zeros
LongCount == [k \in 1..(MaxStrDigits + 1) |-> "1"]
PaddedCount == [k \in 1..MaxStrDigits |-> IF k = MaxStrDigits THEN "7" ELSE "0"]
LongCountHeader == TrackingHeader(Main, OriginMain, AheadPrefix \o LongCount)
LongCountHeaders ==
    {LongCountHeader, TrackingHeader(Main, OriginMain, BehindPrefix \o PaddedCount)}

AllHeaders ==
    TrackingHeaders \cup OddHeaders \cup LongCountHeaders
        \cup {PlainHeader, DetachedHeader, InitialHeader}

File == <<" ", "f">>
Entry(xy) == xy \o File
WorktreeModified == Entry(<<" ", "M">>)
IndexModified == Entry(<<"M", " ">>)
BothModified == Entry(<<"M", "M">>)
AddedModified == Entry(<<"A", "M">>)
Added == Entry(<<"A", " ">>)
Untracked == Entry(<<"?", "?">>)
Unmerged == Entry(<<"U", "U">>)
DeletedByUs == Entry(<<"D", "U">>)
WorktreeDeleted == Entry(<<" ", "D">>)

EntryLines ==
    {WorktreeModified, IndexModified, BothModified, AddedModified, Added,
     Untracked, Unmerged, DeletedByUs, WorktreeDeleted}

GitDirText == <<".", "g", "i", "t", "\n">>
HashText == <<"a", "1", "b", "2", "c", "3", "d", "\n">>
TagText == <<"v", "1", ".", "2", "\n">>
TagTexts == {<<>>, NL, <<"U+00A0", "\r", "\n">>, TagText}

AllOk == [q \in Queries |-> "ok"]

\* garbled: the invocations whose stdout is not valid text
Git(how, garbled, status, tag) ==
    [q \in Queries |->
        [how |-> how[q],
         decodes |-> q \notin garbled,
         out |-> CASE q = "status" -> status
                   [] q = "describe" -> tag
                   [] q = "hash" -> HashText
                   [] q = "gitdir" -> GitDirText]]

\* the same answers, but for the text printed for the metadata directory
GitAt(g, dir) == [g EXCEPT !["gitdir"].out = dir]
OddGitDirTexts == {<<"a", Nul, "b", "\n">>, <<"U+00A0", ".", "g", "i", "t", "\r", "\n">>, NL}

NoStashLog == [opens |-> FALSE, decodes |-> TRUE, text |-> <<>>]
StashLog(n) == [opens |-> TRUE, decodes |-> TRUE, text |-> Repeat(<<"s", "\n">>, n)]
GarbledStashLog == [opens |-> TRUE, decodes |-> FALSE, text |-> <<"s", "\n">>]
OddStashLog == [opens |-> TRUE, decodes |-> TRUE, text |-> <<"s", "\r", "s", "\r", "\n", "s">>]
StashLogs ==
    {NoStashLog, GarbledStashLog, OddStashLog} \cup {StashLog(n) : n \in 0..MaxStash}

MarkerNames == {files[k][1] : k \in 1..Len(files)}

NoEnv == [k \in {} |-> <<>>]
OverrideValues == {<<>>, <<"!">>}
Separators == {"PARTS_SEPARATOR", "AHEAD_BEHIND_SEPARATOR", "OPERATIONS_SEPARATOR",
               "NUMBERS_SEPARATOR"}
\* no override, one key overridden, or a group of keys overridden alike
Envs ==
    {NoEnv}
        \cup {[k \in {key} |-> v] : key \in Keys, v \in OverrideValues}
        \cup {[k \in S |-> v] : S \in {Separators, Keys \ Separators, Keys},
                                v \in OverrideValues}

World(e, g, s, m) == [env |-> e, git |-> g, stash_log |-> s, markers |-> m]

\* every way the four invocations can end, on a few repositories
WorldsFailing ==
    {World(e, Git(how, garbled, StatusText(h, <<WorktreeModified, Untracked>>), tag), s, m) :
        e \in {NoEnv}, how \in [Queries -> Outcomes],
        garbled \in {{}} \cup {{q} : q \in Queries},
        h \in {ExampleHeader, DetachedHeader, PlainHeader}, tag \in {<<>>, TagText},
        s \in {NoStashLog, StashLog(1), GarbledStashLog},
        m \in {{}, {"rebase-merge", "BISECT_LOG"}}}
    \cup
    {World(NoEnv, GitAt(Git(AllOk, {}, StatusText(h, <<Untracked>>), <<>>), d), s, {"MERGE_HEAD"}) :
        h \in {PlainHeader, DetachedHeader}, d \in OddGitDirTexts,
        s \in {NoStashLog, StashLog(1)}}

\* every header with few entry lines, every sequence of entry lines with few headers
WorldsParsing ==
    {World(NoEnv, Git(AllOk, {}, StatusText(h, es), tag), NoStashLog, {}) :
        h \in AllHeaders, es \in {<<>>, <<Untracked>>}, tag \in TagTexts}
    \cup
    {World(NoEnv, Git(AllOk, {}, StatusText(h, es), <<>>), NoStashLog, {}) :
        h \in {ExampleHeader, DetachedHeader}, es \in SeqsUpTo(EntryLines, MaxEntryLines)}
    \cup
    {World(NoEnv, GitAt(Git(AllOk, {}, StatusText(h, <<>>), <<>>), d), NoStashLog, {}) :
        h \in {ExampleHeader, InitialHeader}, d \in OddGitDirTexts}

\* every configuration on the records of every combination of zero and
\* positive counts; every set of markers on one record
WorldsRendering ==
    {World(e, Git(AllOk, {}, StatusText(h, Concat(es)), <<>>), s, m) :
        e \in Envs, h \in {ExampleHeader, DetachedHeader, PlainHeader},
        es \in {<<a, b, c, d>> : a \in {<<>>, <<Added>>}, b \in {<<>>, <<Unmerged>>},
                                 c \in {<<>>, <<WorktreeModified>>},
                                 d \in {<<>>, <<Untracked>>}},
        s \in StashLogs, m \in {{}, {"rebase-merge", "MERGE_HEAD"}}}
    \cup
    {World(NoEnv, Git(AllOk, {}, StatusText(h, <<>>), <<>>), NoStashLog, m) :
        h \in {PlainHeader, DetachedHeader}, m \in SUBSET MarkerNames}
    \cup
    {World(NoEnv, GitAt(Git(AllOk, {}, StatusText(PlainHeader, <<>>), <<>>), d), s, {"MERGE_HEAD"}) :
        d \in OddGitDirTexts, s \in {NoStashLog, StashLog(1)}}

InitCall(w) ==
    /\ env = w.env
    /\ git = w.git
    /\ stash_log = w.stash_log
    /\ markers = w.markers
    /\ pc = "start"
    /\ lines = <<>>
    /\ i = 1
    /\ branch = <<>>
    /\ num_ahead = 0
    /\ num_behind = 0
    /\ untracked = 0
    /\ changed = 0
    /\ conflicts = 0
    /\ staged = 0
    /\ gitdir = <<>>
    /\ stashed = 0
    /\ operations = <<>>
    /\ branch_part = <<>>
    /\ operations_part = <<>>
    /\ numbers_part = <<>>
    /\ prompt = <<>>
    /\ result = Running
    /\ log = <<>>

Init == \E w \in WorldsFailing : InitCall(w)
InitParse == \E w \in WorldsParsing : InitCall(w)
InitRender == \E w \in WorldsRendering : InitCall(w)

Spec == Init /\ [][Next]_vars
SpecParse == InitParse /\ [][Next]_vars
SpecRender == InitRender /\ [][Next]_vars

----------------------------------------------------------------------------
(* Properties.                                                             *)

Returned == pc = "done" /\ result.kind = "str"
Invoked == {log[k] : k \in 1..Len(log)} \cap Queries
Succeeds(q) == git[q].how = "ok" /\ git[q].decodes
StashReadable == stash_log.opens => stash_log.decodes
AllSucceed == \A q \in Queries : Succeeds(q)
PastHeader == pc # "start" /\ ~(pc = "loop" /\ i = 1) /\ lines # <<>>

\* the symbol table as section 4.4 of the specification defines it
Sym(k) == IF k \in DOMAIN env THEN env[k] ELSE _DEFS[k]

\* C1: whichever invocation fails, and however it fails (non-zero exit
\* status, timeout, no process launched), the call ends returning None.
C1_EveryFailureReturnsNone ==
    \A q \in Invoked : git[q].how # "ok" => pc = "done" /\ result = ReturnNone

C2_IsEntry(l) == ~StartsWith(l, HeaderMark) /\ l # <<>>
C2_StagedModified(l) ==
    C2_IsEntry(l) /\ Len(l) > 1 /\ l[1] \notin {" ", "U"} /\ l[2] = "M"
\* C2: the four counters add up to the number of non-header, non-blank lines
\* read so far plus the number of staged+modified lines among them.
C2_EveryEntryLineCounted ==
    pc = "loop" =>
        untracked + changed + conflicts + staged =
            Cardinality({k \in 1..(i - 1) : C2_IsEntry(lines[k])})
                + Cardinality({k \in 1..(i - 1) : C2_StagedModified(lines[k])})

C3_NoTagFound ==
    /\ git["describe"].decodes
    /\ \/ git["describe"].how = "nonzero"
       \/ git["describe"].how = "ok" /\ Strip(UniversalNewlines(git["describe"].out)) = <<>>
\* C3: at a detached HEAD for which the tag lookup finds no tag (it exits
\* non-zero, or prints nothing), with the other invocations succeeding, the
\* call returns a prompt and the branch is the HASH symbol and the short hash.
C3_DetachedWithoutTagShowsHash ==
    (/\ pc = "done"
     /\ "describe" \in Invoked
     /\ C3_NoTagFound
     /\ \A q \in Queries \ {"describe"} : Succeeds(q)
     /\ StashReadable)
        => /\ result.kind = "str"
           /\ branch = Sym("HASH") \o Strip(UniversalNewlines(git["hash"].out))

\* C4: when every invocation succeeds, no header line makes the call raise.
C4_NoErrorFromParsing == (AllSucceed /\ StashReadable) => result.kind # "raise"

\* The parts of the prompt as section 4.5 of the specification gives them.
NumberKeys == <<"STAGED", "CONFLICTS", "CHANGED", "UNTRACKED", "STASHED">>
CountOf(k) ==
    CASE k = "STAGED" -> staged
      [] k = "CONFLICTS" -> conflicts
      [] k = "CHANGED" -> changed
      [] k = "UNTRACKED" -> untracked
      [] k = "STASHED" -> stashed
      [] k = "AHEAD" -> num_ahead
      [] k = "BEHIND" -> num_behind
EntryOf(k) == Sym(k) \o IntToStr(CountOf(k))
RECURSIVE EntriesExcept(_, _)
EntriesExcept(keys, hidden) ==
    IF keys = <<>> THEN <<>>
    ELSE (IF CountOf(Head(keys)) > 0 /\ Head(keys) \notin hidden
          THEN <<EntryOf(Head(keys))>> ELSE <<>>) \o EntriesExcept(Tail(keys), hidden)
EmptySymbols == {k \in Keys : Sym(k) = <<>>}
AllCountsZero == \A k \in 1..Len(NumberKeys) : CountOf(NumberKeys[k]) = 0
CleanEntry ==
    IF AllCountsZero /\ Sym("CLEAN") # <<>> THEN <<Sym("CLEAN")>> ELSE <<>>
BranchSegment ==
    Join(Sym("AHEAD_BEHIND_SEPARATOR"),
         <<Sym("BRANCH") \o branch>> \o EntriesExcept(<<"AHEAD", "BEHIND">>, EmptySymbols))
OperationsSegment ==
    IF operations = <<>> THEN <<>>
    ELSE <<Join(Sym("OPERATIONS_SEPARATOR"), <<Sym("OPERATION")>> \o operations)>>
NumbersSegment ==
    LET entries == EntriesExcept(NumberKeys, EmptySymbols) \o CleanEntry
    IN IF entries = <<>> THEN <<>>
       ELSE <<Join(Sym("NUMBERS_SEPARATOR"),
                   [k \in 1..Len(entries) |-> entries[k] \o NoColor])>>
Rendered(segments) == Join(Sym("PARTS_SEPARATOR"), segments)

\* C5 as stated: the override, if set, is the value rendered, and an empty
\* symbol among the ten named takes its segment out of the rendered string.
C5_EmptySymbolSuppressesItsSegment ==
    Returned =>
        /\ "BRANCH" \in EmptySymbols =>
               result.val = Rendered(OperationsSegment \o NumbersSegment)
        /\ "OPERATION" \in EmptySymbols =>
               result.val = Rendered(<<BranchSegment>> \o NumbersSegment)
        /\ \A k \in {"AHEAD", "BEHIND", "STAGED", "CONFLICTS", "CHANGED",
                     "UNTRACKED", "STASHED", "CLEAN"} \cap EmptySymbols :
               result.val = Rendered(<<BranchSegment>> \o OperationsSegment \o NumbersSegment)

C5_Suppressible ==
    {"AHEAD", "BEHIND", "STAGED", "CONFLICTS", "CHANGED", "UNTRACKED", "STASHED", "CLEAN"}
\* C5 amended: the override, if set (the empty string included), is the value
\* rendered for every key; an empty AHEAD, BEHIND, STAGED, CONFLICTS, CHANGED,
\* UNTRACKED, STASHED or CLEAN leaves no entry and no separator of its own in
\* the rendered string; an empty BRANCH or OPERATION removes the symbol only.
C5_OverrideIsUsed ==
    Returned =>
        /\ result.val = Rendered(<<BranchSegment>> \o OperationsSegment \o NumbersSegment)
        /\ branch_part[1] = Sym("BRANCH") \o branch
        /\ operations # <<>> => operations_part[1] = Sym("OPERATION")
        /\ \A k \in C5_Suppressible \cap EmptySymbols :
               /\ k = "AHEAD" =>
                      branch_part = <<Sym("BRANCH") \o branch>>
                                        \o EntriesExcept(<<"BEHIND">>, EmptySymbols)
               /\ k = "BEHIND" =>
                      branch_part = <<Sym("BRANCH") \o branch>>
                                        \o EntriesExcept(<<"AHEAD">>, EmptySymbols)
               /\ k = "CLEAN" =>
                      numbers_part = EntriesExcept(NumberKeys, EmptySymbols)
               /\ k \notin {"AHEAD", "BEHIND", "CLEAN"} =>
                      numbers_part =
                          EntriesExcept(NumberKeys, {k} \cup EmptySymbols) \o CleanEntry
        /\ ("describe" \in Invoked /\ "hash" \in Invoked) =>
               branch = Sym("HASH") \o Strip(UniversalNewlines(git["hash"].out))
C5_Witness ==
    /\ Returned
    /\ "STAGED" \in DOMAIN env /\ env["STAGED"] = <<>>
    /\ staged > 0 /\ changed > 0
    /\ numbers_part = <<Sym("CHANGED") \o IntToStr(changed)>>

C6_Shown(k) == CountOf(k) > 0 /\ Sym(k) # <<>>
C6_NumberEntries ==
    LET shown == SelectSeq(NumberKeys, C6_Shown)
    IN [k \in 1..Len(shown) |-> Sym(shown[k]) \o IntToStr(CountOf(shown[k]))]
\* C6: the rendered string is the branch segment, then the operations segment
\* exactly when there are operations, then the numbers segment exactly when it
\* has an entry, joined with PARTS_SEPARATOR; the numbers entries come in the
\* order STAGED, CONFLICTS, CHANGED, UNTRACKED, STASHED, each present exactly
\* when its count is positive and its symbol is not empty.
C6_SegmentsInOrder ==
    Returned =>
        /\ SubSeq(numbers_part, 1, Len(C6_NumberEntries)) = C6_NumberEntries
        /\ Len(numbers_part) > Len(C6_NumberEntries) =>
               numbers_part = <<Sym("CLEAN")>>
        /\ Len(prompt) = 1 + (IF operations # <<>> THEN 1 ELSE 0)
                           + (IF numbers_part # <<>> THEN 1 ELSE 0)
        /\ prompt[1] = Join(Sym("AHEAD_BEHIND_SEPARATOR"), branch_part)
        /\ operations # <<>> =>
               prompt[2] = Join(Sym("OPERATIONS_SEPARATOR"), <<Sym("OPERATION")>> \o operations)
        /\ numbers_part # <<>> =>
               prompt[Len(prompt)] =
                   Join(Sym("NUMBERS_SEPARATOR"),
                        [k \in 1..Len(numbers_part) |-> numbers_part[k] \o NoColor])
        /\ result.val = Join(Sym("PARTS_SEPARATOR"), prompt)
C6_Witness ==
    /\ Returned
    /\ operations # <<>>
    /\ Len(numbers_part) = 5
    /\ Len(prompt) = 3
    /\ env = NoEnv

C7_Clean == Returned /\ AllCountsZero /\ operations = <<>>
\* C7 as stated: with the five counts 0 and no operation, the numbers segment
\* is the CLEAN symbol and nothing else, and is left out when CLEAN is empty.
C7_CleanSegmentIsCleanSymbol ==
    C7_Clean =>
        IF Sym("CLEAN") = <<>> THEN result.val = prompt[1]
        ELSE result.val = prompt[1] \o Sym("PARTS_SEPARATOR") \o Sym("CLEAN")

\* C7 amended: with the five counts 0 and no operation, the numbers segment is
\* the CLEAN symbol followed by the colour reset '{NO_COLOR}', and is left out
\* when CLEAN is empty.
C7_CleanSegmentIsCleanAndReset ==
    C7_Clean =>
        IF Sym("CLEAN") = <<>> THEN result.val = prompt[1]
        ELSE result.val = prompt[1] \o Sym("PARTS_SEPARATOR") \o Sym("CLEAN") \o NoColor
C7_Witness ==
    /\ C7_Clean
    /\ env = NoEnv
    /\ result.val = Cyan \o <<"m", "a", "s", "t", "e", "r">> \o <<"|">> \o BoldGreen \o <<"U+2713">> \o NoColor

C8_Counts == {NatToStr(a) : a \in Amounts} \cup {LongCount}
C8_Clause(na, nb) ==
    CASE na = <<>> /\ nb = <<>> -> <<>>
      [] na # <<>> /\ nb = <<>> -> AheadPrefix \o na
      [] na = <<>> /\ nb # <<>> -> BehindPrefix \o nb
      [] na # <<>> /\ nb # <<>> -> AheadPrefix \o na \o CommaSpace \o BehindPrefix \o nb
\* the headers of the four forms, with the counts as they are written
C8_Headers ==
    {[line |-> TrackingHeader(l, u, C8_Clause(na, nb)), local |-> l, a |-> na, b |-> nb] :
        l \in Locals, u \in Upstreams,
        na \in C8_Counts \cup {<<>>}, nb \in C8_Counts \cup {<<>>}}
C8_Is(n, written) == IF written = <<>> THEN n = 0 ELSE NatToStr(n) = written
\* C8: a header '## L...U', '## L...U [ahead a]', '## L...U [behind b]' or
\* '## L...U [ahead a, behind b]', a and b any positive integers, gives branch
\* L, ahead a and behind b, a count the clause does not mention being 0, and
\* reading the status output raises nothing: an exception, if any, comes
\* after the metadata-directory query.
C8_TrackingHeaderParsed ==
    \A h \in C8_Headers :
        (PastHeader /\ lines[1] = h.line) =>
            /\ branch = h.local
            /\ C8_Is(num_ahead, h.a)
            /\ C8_Is(num_behind, h.b)
            /\ result.kind = "raise" => "gitdir" \in Invoked

C9_Order ==
    << <<"rebase-merge", <<"R", "E", "B", "A", "S", "E">>>>,
       <<"rebase-apply", <<"A", "M", "/", "R", "E", "B", "A", "S", "E">>>>,
       <<"MERGE_HEAD", <<"M", "E", "R", "G", "I", "N", "G">>>>,
       <<"CHERRY_PICK_HEAD", <<"C", "H", "E", "R", "R", "Y", "-", "P", "I", "C", "K", "I", "N", "G">>>>,
       <<"REVERT_HEAD", <<"R", "E", "V", "E", "R", "T", "I", "N", "G">>>>,
       <<"BISECT_LOG", <<"B", "I", "S", "E", "C", "T", "I", "N", "G">>>> >>
C9_Pos(label) == CHOOSE k \in 1..Len(C9_Order) : C9_Order[k][2] = label
\* C9: the operations are the labels of the markers that exist, each once, in
\* the order REBASE, AM/REBASE, MERGING, CHERRY-PICKING, REVERTING, BISECTING.
C9_OperationsAreThePresentMarkers ==
    (pc = "render" \/ Returned) =>
        /\ \A k \in 1..Len(C9_Order) :
               (C9_Order[k][1] \in markers)
                   <=> (\E j \in 1..Len(operations) : operations[j] = C9_Order[k][2])
        /\ \A j \in 1..Len(operations) : \E k \in 1..Len(C9_Order) : operations[j] = C9_Order[k][2]
        /\ \A j, k \in 1..Len(operations) :
               j < k => C9_Pos(operations[j]) < C9_Pos(operations[k])
        /\ markers = {} => operations = <<>>
C9_Witness ==
    /\ pc = "done"
    /\ markers = {"rebase-apply", "CHERRY_PICK_HEAD", "BISECT_LOG"}
    /\ operations = <<<<"A", "M", "/", "R", "E", "B", "A", "S", "E">>, <<"C", "H", "E", "R", "R", "Y", "-", "P", "I", "C", "K", "I", "N", "G">>, <<"B", "I", "S", "E", "C", "T", "I", "N", "G">>>>

C10_At(q) == {k \in 1..Len(log) : log[k] = q}
C10_AfterGitDir == <<"open logs/refs/stash">> \o ExistsChecks
\* C10: the invocations of a call come in a fixed sequence without retry: the
\* status query first; the tag lookup only at a detached-HEAD header; the hash
\* query only right after a tag lookup that printed nothing; the
\* metadata-directory query last, followed by the stash-log read and the six
\* existence checks; at most four invocations; nothing after a failed one.
C10_InvocationsInFixedSequence ==
    /\ log # <<>> => log[1] = "status"
    /\ \A q \in Queries : Cardinality(C10_At(q)) <= 1
    /\ Cardinality({k \in 1..Len(log) : log[k] \in Queries}) <= 4
    /\ \A k \in C10_At("describe") :
           \E n \in 1..Len(lines) :
               StartsWith(lines[n], HeaderMark) /\ Contains(lines[n], NoBranch)
    /\ \A k \in C10_At("hash") :
           /\ k > 1 /\ log[k - 1] = "describe"
           /\ Succeeds("describe")
           /\ Strip(UniversalNewlines(git["describe"].out)) = <<>>
    /\ \A k \in C10_At("gitdir") :
           LET after == SubSeq(log, k + 1, Len(log))
           IN /\ Len(after) <= Len(C10_AfterGitDir)
              /\ after = SubSeq(C10_AfterGitDir, 1, Len(after))
              /\ Returned => after = C10_AfterGitDir
    /\ \A k \in 1..Len(log) :
           (log[k] \in Queries /\ ~Succeeds(log[k])) => k = Len(log) /\ pc = "done"
    /\ Returned => "gitdir" \in Invoked
C10_Witness ==
    /\ pc = "done"
    /\ log = <<"status", "describe", "hash", "gitdir">> \o C10_AfterGitDir

====
